---- MODULE Spec2Model ----
(***************************************************************************)
(* State-machine model of the DeFi language server (server/src/server.ts). *)
(*                                                                         *)
(* The server runs on one cooperative scheduler: a handler runs without    *)
(* interruption until it waits for a remote answer (a configuration        *)
(* request, a naming-backend call, a chain or market request).  An action  *)
(* of the model is one such uninterrupted run: the arrival of an event or  *)
(* of a remote answer, followed by everything the code does until the next *)
(* remote wait.                                                            *)
(*                                                                         *)
(* Strings are modelled by their structure:                                *)
(*  - an address string is [id, cs]: id names the 40 hex digits regardless *)
(*    of case, cs is the case (TRUE = upper) of two of its letter digits;  *)
(*  - a text is a sequence of lexemes: an address-shaped token (0x and 40  *)
(*    hex digits, 42 characters), a token of 64 hex digits, or a single    *)
(*    character;                                                           *)
(*  - a diagnostic code is its prefix and what follows the prefix.         *)
(***************************************************************************)
EXTENDS Integers, Sequences, FiniteSets, TLC

\* ------------------------------------------------------------------ bounds
MaxPasses == 2          \* validation passes started in one behaviour of Spec
MaxSoloPasses == 1      \* validation passes in one behaviour of the other specifications
MaxHovers == 1          \* hover requests in one behaviour of SpecHover
MaxResolves == 1        \* code-lens resolve requests in one behaviour
MaxCompletions == 1     \* completion requests in one behaviour

\* ------------------------------------------------------- program constants
DIAGNOSTIC_TYPE_NOT_VALID_ADDRESS == "NotValidAddress"
DIAGNOSTIC_TYPE_NOT_CHECKSUM_ADDRESS == "NotChecksumAddress"
DIAGNOSTIC_TYPE_CONVERT_ENS_NAME == "ConvertENSName"
NAME == "DeFi Language Support"
CODE_LENS_TYPE_ETH_ADDRESS == "EthAddress"
CODE_LENS_TYPE_ETH_PRIVATE_KEY == "EthPrivateKey"
MAINNET == "mainnet"
ROPSTEN == "ropsten"
KOVAN == "kovan"
RINKEBY == "rinkeby"
GOERLI == "goerli"
NETWORKS == <<MAINNET, ROPSTEN, KOVAN, RINKEBY, GOERLI>>
AddressTokenLength == 42    \* "0x" and 40 hex digits
PrivateKeyLength == 64      \* 64 hex digits

Undefined == "undefined"    \* the value of a variable never assigned
Rejected == "rejected"      \* a remote promise that rejects

\* ------------------------------------------------------------- input sets
Docs == {"d1", "d2"}
AddrIds == {"a", "b"}
Names == {"alice.eth"}

AllLower == <<FALSE, FALSE>>
AllUpper == <<TRUE, TRUE>>

\* The case pattern the checksum hash gives each address: "a" has a
\* mixed-case canonical form, "b" a canonical form without upper-case digits.
ChecksumCase(id) == IF id = "a" THEN <<TRUE, FALSE>> ELSE AllLower

Addr(id, cs) == [id |-> id, cs |-> cs]
ZeroAddress == [id |-> "0", cs |-> AllLower]   \* "0x0000...0000"
EmptyString == [id |-> "", cs |-> AllLower]    \* "" where an address string is expected

defaultSettings ==
    [maxNumberOfProblems |-> 1000, infuraProjectId |-> "",
     infuraProjectSecret |-> "", amberdataApiKey |-> ""]

\* The settings a client may answer or push.
SettingsPool ==
    { defaultSettings,
      [maxNumberOfProblems |-> 1, infuraProjectId |-> "p1",
       infuraProjectSecret |-> "s1", amberdataApiKey |-> "k1"],
      [maxNumberOfProblems |-> 2, infuraProjectId |-> "p2",
       infuraProjectSecret |-> "s2", amberdataApiKey |-> ""] }

Tok(id, cs) == [kind |-> "addr", ch |-> "", content |-> Addr(id, cs)]
Ch(c) == [kind |-> "char", ch |-> c, content |-> EmptyString]
\* 64 hex digits: content is the address of the key, "" when no key derives.
Key(address) == [kind |-> "key", ch |-> "", content |-> address]

\* The texts a document may hold.  " " is a non-word character, "g" a word
\* character that is no hex digit, "f" a hex digit, "\n" a line break.
TextPool ==
    { <<>>,
      <<Tok("a", AllLower)>>,
      <<Tok("a", <<FALSE, TRUE>>), Ch(" "), Tok("a", <<TRUE, FALSE>>), Ch("\n")>>,
      <<Tok("a", AllUpper), Ch(" "), Tok("b", AllLower)>>,
      <<Tok("a", <<FALSE, TRUE>>), Ch(" "), Tok("b", AllUpper)>>,
      <<Tok("b", AllUpper), Ch("g"), Ch(" "), Tok("a", AllLower), Ch("f")>>,
      <<Key(Addr("a", ChecksumCase("a"))), Ch(" "), Key(EmptyString), Ch("\n"),
        Tok("b", AllLower)>> }

\* ---------------------------------------------------------- text helpers
LexLen(x) ==
    IF x.kind = "addr" THEN AddressTokenLength
    ELSE IF x.kind = "key" THEN PrivateKeyLength ELSE 1

RECURSIVE TextLength(_)
TextLength(text) ==
    IF text = <<>> THEN 0 ELSE LexLen(Head(text)) + TextLength(Tail(text))

\* Character offset at which lexeme k of the text starts.
OffsetOf(text, k) == TextLength(SubSeq(text, 1, k - 1))

IsWordChar(x) == x.kind \in {"addr", "key"} \/ x.ch \in {"g", "f"}

\* TextDocument.positionAt: the line is the number of line breaks before the
\* offset, the character the distance from the start of that line.
RECURSIVE PositionFrom(_, _, _, _)
PositionFrom(text, offset, line, lineStart) ==
    IF text = <<>> \/ LexLen(Head(text)) > offset
    THEN [line |-> line, character |-> lineStart + offset]
    ELSE IF Head(text).ch = "\n"
         THEN PositionFrom(Tail(text), offset - 1, line + 1, 0)
         ELSE PositionFrom(Tail(text), offset - LexLen(Head(text)), line,
                           lineStart + LexLen(Head(text)))

positionAt(text, offset) == PositionFrom(text, offset, 0, 0)

\* ------------------------------------------------------------ the scanner
StringLocation(text, k) ==
    [range |-> [start |-> positionAt(text, OffsetOf(text, k)),
                end |-> positionAt(text, OffsetOf(text, k) + LexLen(text[k]))],
     content |-> text[k].content]

\* /0x[0-9a-fA-F]{40}\b/ at lexeme k: the token must end at a word boundary,
\* that is at the end of the text or before a non-word character.
PatternMatchesAt(text, k) ==
    /\ text[k].kind = "addr"
    /\ k = Len(text) \/ ~IsWordChar(text[k + 1])

\* pattern.exec: the first match at or after lexeme k, 0 when there is none.
Exec(text, k) ==
    LET ms == {j \in k..Len(text) : PatternMatchesAt(text, j)}
    IN IF ms = {} THEN 0 ELSE CHOOSE j \in ms : \A i \in ms : j <= i

ScanLimit == 100

\* The while loop of the scan; problems is never incremented in the loop.
RECURSIVE ScanFrom(_, _, _, _)
ScanFrom(text, k, problems, locations) ==
    LET m == Exec(text, k)
    IN IF m # 0 /\ problems < ScanLimit
       THEN ScanFrom(text, m + 1, problems, Append(locations, StringLocation(text, m)))
       ELSE locations

findPossibleEthereumAddresses(text) == ScanFrom(text, 1, 0, <<>>)

\* ------------------------------------------------------------ validators
\* web3.utils.isAddress: 40 hex digits that are all lower case, all upper
\* case, or in the case the checksum gives them.
isValidEthereumAddress(address) ==
    /\ address.id \in AddrIds
    /\ \/ address.cs = AllLower
       \/ address.cs = AllUpper
       \/ address.cs = ChecksumCase(address.id)

\* web3.utils.toChecksumAddress: the digits in the case the checksum gives.
toChecksumAddress(address) == Addr(address.id, ChecksumCase(address.id))

\* ----------------------------------------------------------- diagnostics
Code(prefix, checksum, name) == [prefix |-> prefix, checksum |-> checksum, name |-> name]

\* Faulty variant: the range runs from the span's start to the start of the
\* line after it.
NewDiagnosticToNextLine(related, uri, element, message, details, severity, code) ==
    [severity |-> severity,
     range |-> [start |-> element.range.start,
                end |-> [line |-> element.range.start.line + 1, character |-> 0]],
     message |-> message,
     source |-> NAME,
     code |-> code,
     relatedInformation |->
        IF related
        THEN <<[uri |-> uri, range |-> element.range, message |-> details]>>
        ELSE <<>>]

NewDiagnostic(related, uri, element, message, details, severity, code) ==
    [severity |-> severity,
     range |-> element.range,
     message |-> message,
     source |-> NAME,
     code |-> code,
     relatedInformation |->
        IF related
        THEN <<[uri |-> uri, range |-> element.range, message |-> details]>>
        ELSE <<>>]

Message(content, what, name) == [subject |-> content, text |-> what, name |-> name]

NotValidDiagnostic(related, uri, element) ==
    NewDiagnostic(related, uri, element,
        Message(element.content, "is not a valid Ethereum address", ""),
        "The string appears to be an Ethereum address but fails checksum.",
        "Error", Code(DIAGNOSTIC_TYPE_NOT_VALID_ADDRESS, EmptyString, ""))

\* Faulty variant: the code carries the string of the span as it is.
NotChecksumDiagnosticOfContent(related, uri, element, checksumAddress) ==
    NewDiagnostic(related, uri, element,
        Message(element.content, "is not a checksum address", ""),
        "Use a checksum address as a best practice to ensure the address is valid.",
        "Warning", Code(DIAGNOSTIC_TYPE_NOT_CHECKSUM_ADDRESS, element.content, ""))

NotChecksumDiagnostic(related, uri, element, checksumAddress) ==
    NewDiagnostic(related, uri, element,
        Message(element.content, "is not a checksum address", ""),
        "Use a checksum address as a best practice to ensure the address is valid.",
        "Warning", Code(DIAGNOSTIC_TYPE_NOT_CHECKSUM_ADDRESS, checksumAddress, ""))

ConvertENSDiagnostic(related, uri, element, ensName) ==
    NewDiagnostic(related, uri, element,
        Message(element.content, "can be converted to its ENS name", ensName),
        "Convert the Ethereum address to its ENS name for better readability.",
        "Hint", Code(DIAGNOSTIC_TYPE_CONVERT_ENS_NAME, EmptyString, ensName))

\* ------------------------------------------------------- the name resolver
\* The answers of the naming backend.
ReverseAnswers == {Rejected} \cup Names
ForwardAnswers ==
    {[ok |-> FALSE, addr |-> EmptyString], [ok |-> TRUE, addr |-> ZeroAddress]}
    \cup {[ok |-> TRUE, addr |-> Addr(id, AllLower)] : id \in AddrIds}

\* ENSLookup once the backend answered: the address, "" for the zero
\* address or a failure.
ENSLookupResult(answer) ==
    IF answer.ok /\ answer.addr # ZeroAddress THEN answer.addr ELSE EmptyString

\* Faulty variant: the reverse name is returned without the forward confirmation.
reverseENSLookupUnconfirmed(address, name, addr) == name

\* reverseENSLookup once the forward lookup of the reverse name returned addr.
\* toChecksumAddress throws on "", and the catch leaves the result empty.
reverseENSLookupResult(address, name, addr) ==
    IF addr # EmptyString /\ toChecksumAddress(address) = toChecksumAddress(addr)
    THEN name
    ELSE ""

\* ------------------------------------------------------------------ state
VARIABLES
    initialized,            \* onInitialize has run
    hasConfigurationCapability,
    hasDiagnosticRelatedInformationCapability,
    globalSettings,
    documentSettings,       \* uri -> index into promises, 0 when not cached
    promises,               \* the configuration requests sent, and their answers
    documents,              \* uri -> the text of the open document
    openOrder,              \* documents.all(): the open documents in order of opening
    web3provider,
    ens,
    amberdataApiKeySetting,
    passes,                 \* the calls of validateTextDocument, in order of start
    published,              \* uri -> what sendDiagnostics last sent for it
    ensLog,                 \* the call of reverseENSLookup that completed last
    hovers,                 \* the hover requests, in order of arrival
    codeActions,            \* the code-action request answered last
    codeLenses,             \* the code-lens request answered last
    resolves,               \* the code-lens resolve requests, in order of arrival
    completions             \* the completion requests, in order of arrival

vars ==
    <<initialized, hasConfigurationCapability, hasDiagnosticRelatedInformationCapability,
      globalSettings, documentSettings, promises, documents, openOrder,
      web3provider, ens, amberdataApiKeySetting, passes, published, ensLog, hovers,
      codeActions, codeLenses, resolves, completions>>

\* The requests the validation passes and the hover handler leave alone.
requests == <<codeActions, codeLenses, resolves, completions>>

NotOpen == <<[kind |-> "closed", ch |-> "", content |-> EmptyString]>>

NoProvider == [id |-> Undefined, secret |-> Undefined]
HttpProvider(settings) ==
    [id |-> settings.infuraProjectId, secret |-> settings.infuraProjectSecret]

\* The part of the state the handlers change, as one record.
Cur ==
    [globalSettings |-> globalSettings, documentSettings |-> documentSettings,
     promises |-> promises, documents |-> documents, openOrder |-> openOrder,
     web3provider |-> web3provider, ens |-> ens,
     amberdataApiKeySetting |-> amberdataApiKeySetting,
     passes |-> passes, published |-> published, ensLog |-> ensLog,
     hovers |-> hovers]

Apply(m) ==
    /\ globalSettings' = m.globalSettings
    /\ documentSettings' = m.documentSettings
    /\ promises' = m.promises
    /\ documents' = m.documents
    /\ openOrder' = m.openOrder
    /\ web3provider' = m.web3provider
    /\ ens' = m.ens
    /\ amberdataApiKeySetting' = m.amberdataApiKeySetting
    /\ passes' = m.passes
    /\ published' = m.published
    /\ ensLog' = m.ensLog
    /\ hovers' = m.hovers
    /\ UNCHANGED <<initialized, hasConfigurationCapability,
                   hasDiagnosticRelatedInformationCapability, requests>>

NoPublication == [by |-> 0, diagnostics |-> <<>>]

\* A call of reverseENSLookup: its argument, the name the reverse lookup gave
\* (Rejected when it failed), what ENSLookup returned for it, and its result.
LogEntry(address, name, addr, result) ==
    [address |-> address, name |-> name, addr |-> addr, result |-> result]
NoCall == LogEntry(EmptyString, "", EmptyString, "")

\* No code-action request, and no code-lens request, was answered yet.
NoCodeActions == [answered |-> FALSE, uri |-> "", diagnostics |-> <<>>, result |-> <<>>]
NoCodeLenses == [answered |-> FALSE, uri |-> "", text |-> NotOpen, result |-> <<>>]

Init ==
    /\ initialized = FALSE
    /\ hasConfigurationCapability = FALSE
    /\ hasDiagnosticRelatedInformationCapability = FALSE
    /\ globalSettings = defaultSettings
    /\ documentSettings = [d \in Docs |-> 0]
    /\ promises = <<>>
    /\ documents = [d \in Docs |-> NotOpen]
    /\ openOrder = <<>>
    /\ web3provider = NoProvider
    /\ ens = NoProvider
    /\ amberdataApiKeySetting = Undefined
    /\ passes = <<>>
    /\ published = [d \in Docs |-> NoPublication]
    /\ ensLog = NoCall
    /\ hovers = <<>>
    /\ codeActions = NoCodeActions
    /\ codeLenses = NoCodeLenses
    /\ resolves = <<>>
    /\ completions = <<>>

\* ------------------------------------------------------- validateTextDocument
NewPass(uri, promise) ==
    [doc |-> uri, pc |-> "settings", promise |-> promise,
     settings |-> defaultSettings, text |-> <<>>, cands |-> <<>>,
     i |-> 1, problems |-> 0, diagnostics |-> <<>>,
     name |-> "",           \* the reverse name whose forward lookup is awaited
     lookups |-> {},        \* the candidates reverseENSLookup was called for
     usedEns |-> {},        \* the resolvers the pass's lookups went to
     shown |-> {},          \* the calls of reverseENSLookup that returned a name
     returned |-> {},       \* what reverseENSLookup returned, by candidate
     detached |-> FALSE,    \* the document was closed while the pass waited
     superseded |-> FALSE,  \* a configuration change came after the start of the pass
     raised |-> "",         \* the call that raised into the pass
     fixed |-> <<>>,        \* the quick fix whose application started the pass
     sent |-> 0]            \* the calls of sendDiagnostics of the pass

SetPass(m, k, p) == [m EXCEPT !.passes[k] = p]

\* Faulty variant: the passes share one diagnostics array, which each pass
\* empties when it scans; a pass publishes what the newest pass collected.
sendSharedDiagnostics(m, k) ==
    LET p == m.passes[k]
    IN [m EXCEPT !.published[p.doc] =
                     [by |-> k, diagnostics |-> m.passes[Len(m.passes)].diagnostics],
                 !.passes[k].pc = "done",
                 !.passes[k].sent = @ + 1]

\* Faulty variant: a pass that is not the newest of its document ends without
\* publishing.
sendUnlessSuperseded(m, k) ==
    LET p == m.passes[k]
    IN IF \E j \in (k + 1)..Len(m.passes) : m.passes[j].doc = p.doc
       THEN [m EXCEPT !.passes[k].pc = "done"]
       ELSE [m EXCEPT !.published[p.doc] = [by |-> k, diagnostics |-> p.diagnostics],
                      !.passes[k].pc = "done",
                      !.passes[k].sent = @ + 1]

\* connection.sendDiagnostics({ uri, diagnostics }) at the end of a pass.
sendDiagnostics(m, k) ==
    LET p == m.passes[k]
    IN [m EXCEPT !.published[p.doc] = [by |-> k, diagnostics |-> p.diagnostics],
                 !.passes[k].pc = "done",
                 !.passes[k].sent = @ + 1]

\* problems < settings.maxNumberOfProblems
WithinProblemLimit(problems, settings) == problems < settings.maxNumberOfProblems

\* Faulty variant: the comparison ignores the letter case.
NotChecksumFormIgnoringCase(content, checksumAddress) == content.id # checksumAddress.id

\* element.content != checksumAddress
NotChecksumForm(content, checksumAddress) == content # checksumAddress

\* Faulty variant: the invalid branch falls through to the checksum warning.
InvalidCandidateFallsThrough(p, related) ==
    [p EXCEPT !.problems = @ + 1,
              !.diagnostics =
                 Append(Append(@, NotValidDiagnostic(related, p.doc, p.cands[p.i])),
                        NotChecksumDiagnostic(related, p.doc, p.cands[p.i],
                                              toChecksumAddress(p.cands[p.i].content))),
              !.i = @ + 1]

\* The branch of a candidate that fails isValidEthereumAddress: one error
\* diagnostic, and on to the next candidate.
InvalidCandidate(p, related) ==
    [p EXCEPT !.problems = @ + 1,
              !.diagnostics = Append(@, NotValidDiagnostic(related, p.doc, p.cands[p.i])),
              !.i = @ + 1]

\* The branch of a valid candidate up to the call of reverseENSLookup.
ValidCandidate(p, related) ==
    LET element == p.cands[p.i]
        checksumAddress == toChecksumAddress(element.content)
    IN [p EXCEPT !.problems = @ + 1,
                 !.diagnostics =
                    IF NotChecksumForm(element.content, checksumAddress)
                    THEN Append(@, NotChecksumDiagnostic(related, p.doc, element, checksumAddress))
                    ELSE @,
                 !.lookups = @ \cup {p.i}]

\* The for loop over the candidates, from candidate p.i on, until the pass
\* waits for the naming backend, raises, or publishes.
RECURSIVE Loop(_, _)
Loop(m, k) ==
    LET p == m.passes[k]
        related == hasDiagnosticRelatedInformationCapability
    IN IF p.i > Len(p.cands)
       THEN sendDiagnostics(m, k)
       ELSE IF WithinProblemLimit(p.problems, p.settings)
            THEN IF ~isValidEthereumAddress(p.cands[p.i].content)
                 THEN Loop(SetPass(m, k, InvalidCandidate(p, related)), k)
                 ELSE LET q == ValidCandidate(p, related)
                      IN IF m.ens = NoProvider
                         THEN \* ens.reverse on undefined: reverseENSLookup raises
                              SetPass(m, k, [q EXCEPT !.pc = "failed",
                                                      !.raised = "reverseENSLookup"])
                         ELSE SetPass(m, k, [q EXCEPT !.pc = "reverse",
                                                      !.usedEns = @ \cup {m.ens}])
            ELSE Loop(SetPass(m, k, [p EXCEPT !.i = @ + 1]), k)

\* The pass from the moment its settings are known.
Resume(m, k, settings) ==
    LET p == m.passes[k]
        configured == settings.infuraProjectId # ""
        m1 == [m EXCEPT
                 !.web3provider = IF configured THEN HttpProvider(settings) ELSE @,
                 !.ens = IF configured THEN HttpProvider(settings) ELSE @,
                 !.amberdataApiKeySetting =
                     IF settings.amberdataApiKey = "" THEN @ ELSE settings.amberdataApiKey]
        \* the pass reads the text of the document object it was started with
        text == IF p.detached THEN p.text ELSE m.documents[p.doc]
    IN Loop(SetPass(m1, k, [p EXCEPT !.settings = settings, !.pc = "loop",
                                     !.text = text,
                                     !.cands = findPossibleEthereumAddresses(text)]), k)

\* Faulty variant: the hint is left out when the span has a diagnostic already.
HintUnlessWarned(diagnostics, related, uri, element, ensName) ==
    IF ensName # "" /\ \A n \in 1..Len(diagnostics) : diagnostics[n].range # element.range
    THEN Append(diagnostics, ConvertENSDiagnostic(related, uri, element, ensName))
    ELSE diagnostics

\* Faulty variant: the hint is put in front of the diagnostics.
HintInFront(diagnostics, related, uri, element, ensName) ==
    IF ensName # ""
    THEN <<ConvertENSDiagnostic(related, uri, element, ensName)>> \o diagnostics
    ELSE diagnostics

\* if (ensName !== "") addDiagnostic(element, ..., Hint, ...)
HintToConvert(diagnostics, related, uri, element, ensName) ==
    IF ensName # ""
    THEN Append(diagnostics, ConvertENSDiagnostic(related, uri, element, ensName))
    ELSE diagnostics

\* The pass once reverseENSLookup returned for candidate p.i; call is the
\* record of that call.
AfterLookup(m, k, call) ==
    LET p == m.passes[k]
        element == p.cands[p.i]
        ensName == call.result
        ds == HintToConvert(p.diagnostics, hasDiagnosticRelatedInformationCapability,
                            p.doc, element, ensName)
    IN Loop(SetPass([m EXCEPT !.ensLog = call], k,
                    [p EXCEPT !.diagnostics = ds, !.i = @ + 1, !.pc = "loop",
                              !.name = "",
                              !.shown = IF ensName # "" THEN @ \cup {call} ELSE @,
                              !.returned = @ \cup {[i |-> p.i, name |-> ensName]}]), k)

\* Faulty variant: every pass sends a configuration request of its own.
validateWithoutCache(m, uri) ==
    LET k == Len(m.passes) + 1
        r == Len(m.promises) + 1
    IN IF ~hasConfigurationCapability
       THEN Resume([m EXCEPT !.passes = Append(@, NewPass(uri, 0))], k, m.globalSettings)
       ELSE [m EXCEPT !.promises = Append(@, [resolved |-> FALSE, value |-> defaultSettings,
                                              stale |-> FALSE]),
                      !.documentSettings[uri] = r,
                      !.passes = Append(@, NewPass(uri, r))]

\* getDocumentSettings followed by the start of validateTextDocument.
validateTextDocument(m, uri) ==
    LET k == Len(m.passes) + 1
    IN IF ~hasConfigurationCapability
       THEN Resume([m EXCEPT !.passes = Append(@, NewPass(uri, 0))], k, m.globalSettings)
       ELSE IF m.documentSettings[uri] = 0
            THEN LET r == Len(m.promises) + 1
                 IN [m EXCEPT !.promises = Append(@, [resolved |-> FALSE, value |-> defaultSettings,
                                                      stale |-> FALSE]),
                              !.documentSettings[uri] = r,
                              !.passes = Append(@, NewPass(uri, r))]
            ELSE LET r == m.documentSettings[uri]
                     m1 == [m EXCEPT !.passes = Append(@, NewPass(uri, r))]
                 IN IF m.promises[r].resolved
                    THEN Resume(m1, k, m.promises[r].value)
                    ELSE m1

\* ----------------------------------------------------------------- actions
\* connection.onInitialize: the client's capabilities are recorded.
onInitialize ==
    /\ ~initialized
    /\ initialized' = TRUE
    /\ hasConfigurationCapability' \in BOOLEAN
    /\ hasDiagnosticRelatedInformationCapability' \in BOOLEAN
    /\ UNCHANGED <<globalSettings, documentSettings, promises, documents, openOrder,
                   web3provider, ens, amberdataApiKeySetting, passes, published, ensLog,
                   hovers, requests>>

\* documents.onDidChangeContent: a document was opened or its text replaced.
DidChangeContent(maxPasses) ==
    /\ initialized
    /\ Len(passes) < maxPasses
    /\ \E uri \in Docs, text \in TextPool :
          /\ documents[uri] # text
          /\ Apply(validateTextDocument(
                 [Cur EXCEPT !.documents[uri] = text,
                             !.openOrder = IF documents[uri] = NotOpen
                                           THEN Append(@, uri) ELSE @],
                 uri))

\* Faulty variant: the entry of a closed document stays in the cache.
keepSettings(settings, uri) == settings

\* documentSettings.delete(uri)
deleteSettings(settings, uri) == [settings EXCEPT ![uri] = 0]

\* documents.all() without the document.
RECURSIVE Without(_, _)
Without(uris, uri) ==
    IF uris = <<>> THEN <<>>
    ELSE IF Head(uris) = uri THEN Without(Tail(uris), uri)
         ELSE <<Head(uris)>> \o Without(Tail(uris), uri)

\* The passes of the document that wait for their settings keep the document
\* object, and with it the text it has when it is closed.
Detach(ps, uri, text) ==
    [k \in 1..Len(ps) |->
        IF ps[k].doc = uri /\ ps[k].pc = "settings" /\ ~ps[k].detached
        THEN [ps[k] EXCEPT !.detached = TRUE, !.text = text]
        ELSE ps[k]]

\* documents.onDidClose: the document leaves the manager, and its settings
\* the cache.
onDidClose ==
    /\ initialized
    /\ \E uri \in Docs :
          /\ documents[uri] # NotOpen
          /\ Apply([Cur EXCEPT !.documents[uri] = NotOpen,
                               !.openOrder = Without(@, uri),
                               !.documentSettings = deleteSettings(@, uri),
                               !.passes = Detach(@, uri, documents[uri])])

\* Faulty variant: no document is revalidated.
ValidateNone(m, uris) == m

\* documents.all().forEach(validateTextDocument)
RECURSIVE ValidateAll(_, _)
ValidateAll(m, uris) ==
    IF uris = <<>> THEN m
    ELSE ValidateAll(validateTextDocument(m, Head(uris)), Tail(uris))

\* The configuration requests and the passes there are when a configuration
\* change arrives are marked as older than the change.
BeforeChange(m) ==
    [m EXCEPT !.promises = [r \in 1..Len(@) |-> [@[r] EXCEPT !.stale = TRUE]],
              !.passes = [k \in 1..Len(@) |-> [@[k] EXCEPT !.superseded = TRUE]]]

\* connection.onDidChangeConfiguration
DidChangeConfiguration(maxPasses) ==
    /\ initialized
    /\ Len(passes) + Len(openOrder) <= maxPasses
    /\ \E change \in SettingsPool :
          LET m == IF hasConfigurationCapability
                   THEN [BeforeChange(Cur) EXCEPT !.documentSettings = [d \in Docs |-> 0]]
                   ELSE [BeforeChange(Cur) EXCEPT !.globalSettings = change]
          IN Apply(ValidateAll(m, openOrder))

\* The passes waiting for promise r take up their work in the order they
\* started waiting.
RECURSIVE ResumeWaiting(_, _, _, _)
ResumeWaiting(m, r, settings, k) ==
    IF k > Len(m.passes) THEN m
    ELSE IF m.passes[k].pc = "settings" /\ m.passes[k].promise = r
         THEN ResumeWaiting(Resume(m, k, settings), r, settings, k + 1)
         ELSE ResumeWaiting(m, r, settings, k + 1)

\* The client answers a workspace/configuration request.
ConfigurationAnswer ==
    \E r \in 1..Len(promises), settings \in SettingsPool :
       /\ ~promises[r].resolved
       /\ Apply(ResumeWaiting(
              [Cur EXCEPT !.promises[r] = [@ EXCEPT !.resolved = TRUE, !.value = settings]],
              r, settings, 1))

\* ens.reverse(address).name() settles for a pass.
ReverseAnswer ==
    \E k \in 1..Len(passes), answer \in ReverseAnswers :
       /\ passes[k].pc = "reverse"
       /\ LET p == passes[k]
              address == p.cands[p.i].content
          IN IF answer = Rejected
             THEN Apply(AfterLookup(Cur, k, LogEntry(address, Rejected, EmptyString, "")))
             ELSE \* then: ENSLookup(name) calls ens.resolver(name).addr()
                  Apply(SetPass(Cur, k, [p EXCEPT !.pc = "forward", !.name = answer,
                                                  !.usedEns = @ \cup {ens}]))

\* ens.resolver(name).addr() settles for a pass.
ForwardAnswer ==
    \E k \in 1..Len(passes), answer \in ForwardAnswers :
       /\ passes[k].pc = "forward"
       /\ LET p == passes[k]
              address == p.cands[p.i].content
              addr == ENSLookupResult(answer)
              result == reverseENSLookupResult(address, p.name, addr)
          IN Apply(AfterLookup(Cur, k, LogEntry(address, p.name, addr, result)))

\* ------------------------------------------------------------------ hover
Max(S) == CHOOSE x \in S : \A y \in S : y <= x
Min(S) == CHOOSE x \in S : \A y \in S : x <= y

\* The offsets of the characters that are neither alphanumeric nor a dot.
BoundaryOffsets(text) ==
    {OffsetOf(text, k) : k \in {j \in 1..Len(text) : text[j].ch \in {" ", "\n"}}}
LineBreakOffsets(text) ==
    {OffsetOf(text, k) : k \in {j \in 1..Len(text) : text[j].ch = "\n"}}

\* The line of the character at offset: from { line, 0 } to { line + 1, 0 }.
LineStart(text, offset) ==
    LET nl == {o \in LineBreakOffsets(text) : o < offset}
    IN IF nl = {} THEN 0 ELSE Max(nl) + 1
LineEnd(text, offset) ==
    LET nl == {o \in LineBreakOffsets(text) : o >= offset}
    IN IF nl = {} THEN TextLength(text) ELSE Min(nl) + 1

\* String.prototype.substring on a string of the given length.
substring(length, a, b) ==
    LET ca == IF a < 0 THEN 0 ELSE IF a > length THEN length ELSE a
        cb == IF b < 0 THEN 0 ELSE IF b > length THEN length ELSE b
    IN [from |-> IF ca <= cb THEN ca ELSE cb, to |-> IF ca <= cb THEN cb ELSE ca]

\* getWord on the line text[from, to) at index: the part of the line it returns.
getWord(text, from, to, index) ==
    LET bs == BoundaryOffsets(text)
        before == {b - from : b \in {o \in bs : from <= o /\ o < from + index}}
        after == {b - (from + index) : b \in {o \in bs : from + index <= o /\ o < to}}
        lastIndexOfRegex == IF before = {} THEN -1 ELSE Max(before)
        indexOfRegex == IF after = {} THEN -1 ELSE Min(after)
        first == lastIndexOfRegex + 1
        last == index + indexOfRegex
        length == to - from
    IN substring(length, IF first # -1 THEN first ELSE 0,
                         IF last # -1 THEN last ELSE length - 1)

OtherWord == [kind |-> "other", ch |-> "", content |-> EmptyString]

\* The string text[a, b): a whole lexeme, or some other string.
WordOf(text, a, b) ==
    LET ks == {k \in 1..Len(text) : OffsetOf(text, k) = a /\ a + LexLen(text[k]) = b}
    IN IF ks = {} THEN OtherWord ELSE text[CHOOSE k \in ks : TRUE]

WordIsAddress(word) == word.kind = "addr" /\ isValidEthereumAddress(word.content)

\* normalizeHex: the string with 0x in front of it.
normalizeHex(word) == [hex |-> word, prefixed |-> TRUE]
\* isPrivateKey: 64 hex digits after 0x from which a key pair derives.
isPrivateKey(possiblePrivateKey) ==
    /\ possiblePrivateKey.prefixed
    /\ possiblePrivateKey.hex.kind = "key"
    /\ possiblePrivateKey.hex.content # EmptyString
toPublicKey(privateKey) == privateKey.hex.content

\* The answers of the market backend and of the chain node.
TokenAnswers == {"error", "none", "token"}
BalanceAnswers == {Rejected, "zero", "positive"}
ValueAnswers == {"error", "none", "data"}
HoldingsAnswers == {"error", "none", "records"}

Section(section, address, name) == [section |-> section, address |-> address, name |-> name]

NewHover(uri) ==
    [doc |-> uri, pc |-> "done", word |-> OtherWord, address |-> EmptyString,
     name |-> "", contents |-> <<>>,
     call |-> NoCall,       \* the hover's call of reverseENSLookup
     token |-> Undefined,   \* the token getToken returned to the hover
     calls |-> {},          \* the remote requests the hover has sent
     raised |-> ""]         \* the call that raised into the handler

SetHover(m, h, r) == [m EXCEPT !.hovers[h] = r]

\* getHoverMarkdownForAddress up to its first remote wait: getToken sends a
\* request unless the key is "", otherwise getMarkdownForRegularAddress starts.
getMarkdownForRegularAddress(m, h, address) ==
    LET r == [m.hovers[h] EXCEPT !.address = address,
                                 !.contents = <<Section("identity", address, "")>>]
    IN IF m.ens = NoProvider
       THEN SetHover(m, h, [r EXCEPT !.pc = "failed", !.raised = "reverseENSLookup"])
       ELSE SetHover(m, h, [r EXCEPT !.pc = "reverse", !.calls = @ \cup {"reverse"}])

getHoverMarkdownForAddress(m, h, address) ==
    IF m.amberdataApiKeySetting # ""
    THEN SetHover(m, h, [m.hovers[h] EXCEPT !.address = address, !.pc = "token",
                                            !.calls = @ \cup {"getToken"}])
    ELSE getMarkdownForRegularAddress(m, h, address)

\* getToken once its request settled: the token of the first record of the
\* payload, undefined for an error or a payload without records.
getTokenResult(answer) == IF answer = "token" THEN "token" ELSE Undefined

\* getMarkdownForTokenAddress once getToken returned: the token block for a
\* token, "" otherwise.
getMarkdownForTokenAddress(token, address) ==
    IF token # Undefined THEN <<Section("token", address, "")>> ELSE <<>>

\* Faulty variant: the regular-address block is produced after the token block.
TokenAndRegularAddress(m, h, result) ==
    LET m1 == getMarkdownForRegularAddress(m, h, m.hovers[h].address)
    IN SetHover(m1, h, [m1.hovers[h] EXCEPT !.contents = result \o @])

\* getHoverMarkdownForAddress once getMarkdownForTokenAddress returned.
AfterTokenLookup(m, h, result) ==
    IF result = <<>>
    THEN getMarkdownForRegularAddress(m, h, m.hovers[h].address)
    ELSE SetHover(m, h, [m.hovers[h] EXCEPT !.contents = result, !.pc = "done"])

\* getMarkdownForRegularAddress once reverseENSLookup returned ensName.
AfterHoverLookup(m, h, call) ==
    LET r == m.hovers[h]
        ensName == call.result
    IN SetHover([m EXCEPT !.ensLog = call], h,
          [r EXCEPT !.contents = IF ensName # ""
                                 THEN Append(@, Section("ens", EmptyString, ensName))
                                 ELSE @,
                    !.name = "",
                    !.call = call,
                    !.calls = @ \cup {"getBalance"},
                    !.pc = "balance"])

\* connection.onHover up to its first remote wait.
Hover(m, uri, offset) ==
    LET h == Len(m.hovers) + 1
        m0 == [m EXCEPT !.hovers = Append(@, NewHover(uri))]
        text == m.documents[uri]
    IN IF text = NotOpen
       THEN m0
       ELSE LET from == LineStart(text, offset)
                to == LineEnd(text, offset)
                part == getWord(text, from, to, offset - from)
                word == WordOf(text, from + part.from, from + part.to)
                m1 == SetHover(m0, h, [m0.hovers[h] EXCEPT !.word = word])
            IN IF WordIsAddress(word)
               THEN getHoverMarkdownForAddress(m1, h, word.content)
               ELSE IF isPrivateKey(normalizeHex(word))
                    THEN getHoverMarkdownForAddress(m1, h, toPublicKey(normalizeHex(word)))
                    ELSE IF m.ens = NoProvider
                         THEN \* ens.resolver on undefined: ENSLookup raises
                              SetHover(m1, h, [m1.hovers[h] EXCEPT !.pc = "failed",
                                                                   !.raised = "ENSLookup"])
                         ELSE SetHover(m1, h, [m1.hovers[h] EXCEPT !.pc = "name",
                                                                   !.calls = {"word"}])

HoverOffsets(text) ==
    {0} \cup {OffsetOf(text, k) + d : k \in 1..Len(text), d \in {0, 1}}

onHover ==
    /\ initialized
    /\ Len(hovers) < MaxHovers
    /\ \E uri \in Docs :
          \E offset \in IF documents[uri] = NotOpen THEN {0} ELSE HoverOffsets(documents[uri]) :
             Apply(Hover(Cur, uri, offset))

\* ens.resolver(word).addr() settles for the hover's ENSLookup(word).
HoverNameAnswer ==
    \E h \in 1..Len(hovers), answer \in ForwardAnswers :
       /\ hovers[h].pc = "name"
       /\ LET address == ENSLookupResult(answer)
          IN IF address # EmptyString
             THEN Apply(getHoverMarkdownForAddress(Cur, h, address))
             ELSE Apply(SetHover(Cur, h, [hovers[h] EXCEPT !.pc = "done"]))

\* The token request of getToken settles.
HoverTokenAnswer ==
    \E h \in 1..Len(hovers), answer \in TokenAnswers :
       /\ hovers[h].pc = "token"
       /\ LET token == getTokenResult(answer)
          IN Apply(AfterTokenLookup(
                SetHover(Cur, h, [hovers[h] EXCEPT !.token = token]), h,
                getMarkdownForTokenAddress(token, hovers[h].address)))

HoverReverseAnswer ==
    \E h \in 1..Len(hovers), answer \in ReverseAnswers :
       /\ hovers[h].pc = "reverse"
       /\ IF answer = Rejected
          THEN Apply(AfterHoverLookup(Cur, h,
                  LogEntry(hovers[h].address, Rejected, EmptyString, "")))
          ELSE Apply(SetHover(Cur, h, [hovers[h] EXCEPT !.pc = "forward", !.name = answer,
                                                        !.calls = @ \cup {"resolver"}]))

HoverForwardAnswer ==
    \E h \in 1..Len(hovers), answer \in ForwardAnswers :
       /\ hovers[h].pc = "forward"
       /\ LET r == hovers[h]
              addr == ENSLookupResult(answer)
              result == reverseENSLookupResult(r.address, r.name, addr)
          IN Apply(AfterHoverLookup(Cur, h, LogEntry(r.address, r.name, addr, result)))

\* web3connection.eth.getBalance settles: a rejection is not caught.
HoverBalanceAnswer ==
    \E h \in 1..Len(hovers), answer \in BalanceAnswers :
       /\ hovers[h].pc = "balance"
       /\ LET r == hovers[h]
          IN IF answer = Rejected
             THEN Apply(SetHover(Cur, h, [r EXCEPT !.pc = "failed", !.raised = "getBalance"]))
             ELSE LET c == IF answer = "positive"
                           THEN Append(r.contents, Section("balance", r.address, ""))
                           ELSE r.contents
                  IN Apply(SetHover(Cur, h,
                        [r EXCEPT !.contents = c,
                                  !.calls = IF amberdataApiKeySetting # ""
                                            THEN @ \cup {"account-balances"} ELSE @,
                                  !.pc = IF amberdataApiKeySetting # ""
                                         THEN "value" ELSE "done"]))

\* The account-balances request settles; the token-holdings request follows.
HoverValueAnswer ==
    \E h \in 1..Len(hovers), answer \in ValueAnswers :
       /\ hovers[h].pc = "value"
       /\ LET r == hovers[h]
              c == IF answer = "data"
                   THEN Append(r.contents, Section("value", r.address, ""))
                   ELSE r.contents
          IN Apply(SetHover(Cur, h,
                [r EXCEPT !.contents = Append(c, Section("break", EmptyString, "")),
                          !.calls = @ \cup {"tokens"},
                          !.pc = "holdings"]))

\* The token-holdings request settles and the hover returns.
HoverHoldingsAnswer ==
    \E h \in 1..Len(hovers), answer \in HoldingsAnswers :
       /\ hovers[h].pc = "holdings"
       /\ LET r == hovers[h]
          IN Apply(SetHover(Cur, h,
                [r EXCEPT !.contents = IF answer = "records"
                                       THEN Append(@, Section("tokens", r.address, ""))
                                       ELSE @,
                          !.pc = "done"]))

\* ------------------------------------------------------------- code lenses
\* /[0-9a-fA-F]{64}\b/ at lexeme k: 64 hex digits that end at a word boundary.
KeyPatternMatchesAt(text, k) ==
    /\ text[k].kind = "key"
    /\ k = Len(text) \/ ~IsWordChar(text[k + 1])

KeyExec(text, k) ==
    LET ms == {j \in k..Len(text) : KeyPatternMatchesAt(text, j)}
    IN IF ms = {} THEN 0 ELSE CHOOSE j \in ms : \A i \in ms : j <= i

\* The location of a key: its content is the match with 0x in front of it.
KeyLocation(text, k) ==
    [range |-> StringLocation(text, k).range, content |-> normalizeHex(text[k])]

RECURSIVE KeyScanFrom(_, _, _, _)
KeyScanFrom(text, k, problems, locations) ==
    LET m == KeyExec(text, k)
    IN IF m # 0 /\ problems < ScanLimit
       THEN KeyScanFrom(text, m + 1, problems, Append(locations, KeyLocation(text, m)))
       ELSE locations

findPossiblePrivateKeys(text) == KeyScanFrom(text, 1, 0, <<>>)

\* Faulty variant: a lens for the mainnet only.
pushMainnetCodeLens(codeLensType, range, content, lenses) ==
    Append(lenses, [range |-> range, data |-> <<codeLensType, MAINNET, content>>])

\* NETWORKS.forEach: a lens for each network, in the order of NETWORKS.
pushEthereumAddressCodeLenses(codeLensType, range, content, lenses) ==
    lenses \o [n \in 1..Len(NETWORKS) |->
                 [range |-> range, data |-> <<codeLensType, NETWORKS[n], content>>]]

\* possibleEthereumAddresses.forEach
RECURSIVE AddressLenses(_, _)
AddressLenses(locations, lenses) ==
    IF locations = <<>> THEN lenses
    ELSE LET element == Head(locations)
         IN AddressLenses(Tail(locations),
               IF isValidEthereumAddress(element.content)
               THEN pushEthereumAddressCodeLenses(CODE_LENS_TYPE_ETH_ADDRESS,
                                                  element.range, element.content, lenses)
               ELSE lenses)

\* Faulty variant: a key that derives no address gets lenses as well.
KeyLensWanted(content) == TRUE

\* if (isPrivateKey(element.content))
KeyLensFor(content) == isPrivateKey(content)

\* possiblePublicKeys.forEach
RECURSIVE KeyLenses(_, _)
KeyLenses(locations, lenses) ==
    IF locations = <<>> THEN lenses
    ELSE LET element == Head(locations)
         IN KeyLenses(Tail(locations),
               IF KeyLensFor(element.content)
               THEN pushEthereumAddressCodeLenses(CODE_LENS_TYPE_ETH_PRIVATE_KEY,
                                                  element.range, toPublicKey(element.content),
                                                  lenses)
               ELSE lenses)

\* The answer of onCodeLens for a document with the given text.
CodeLenses(text) ==
    IF text = NotOpen
    THEN <<>>
    ELSE KeyLenses(findPossiblePrivateKeys(text),
                   AddressLenses(findPossibleEthereumAddresses(text), <<>>))

\* connection.onCodeLens
onCodeLens ==
    /\ initialized
    /\ \E uri \in Docs :
          codeLenses' = [answered |-> TRUE, uri |-> uri, text |-> documents[uri],
                         result |-> CodeLenses(documents[uri])]
    /\ UNCHANGED <<initialized, hasConfigurationCapability,
                   hasDiagnosticRelatedInformationCapability, globalSettings,
                   documentSettings, promises, documents, openOrder, web3provider, ens,
                   amberdataApiKeySetting, passes, published, ensLog, hovers,
                   codeActions, resolves, completions>>

\* What a code-lens resolve request leaves alone.
unresolved ==
    <<initialized, hasConfigurationCapability, hasDiagnosticRelatedInformationCapability,
      globalSettings, documentSettings, promises, documents, openOrder, web3provider, ens,
      amberdataApiKeySetting, passes, published, hovers, codeActions, codeLenses,
      completions>>

Command(ensName, token, codeLensType, network, address) ==
    [ensName |-> ensName, token |-> token, type |-> codeLensType, network |-> network,
     address |-> address]
NoCommand == Command("", "", "", "", EmptyString)

NewResolve(codeLens) ==
    [codeLens |-> codeLens, pc |-> "done", ensName |-> "", name |-> "",
     token |-> Undefined, command |-> NoCommand,
     calls |-> {},          \* the remote calls the request sent
     answer |-> "",         \* what the market backend answered
     raised |-> ""]         \* the call that raised into the handler

\* The command of a lens: for the mainnet with the name and the token found.
ResolvedCommand(r) ==
    Command(r.ensName, r.token, r.codeLens.data[1], r.codeLens.data[2], r.codeLens.data[3])

\* Faulty variant: the lenses of all networks are looked up.
AnyNetwork(network) == TRUE

\* if (network === MAINNET)
IsMainnet(network) == network = MAINNET

\* onCodeLensResolve from the return of reverseENSLookup: getToken sends a
\* request unless the key is "", otherwise the command is made.
AfterResolveLookup(r, ensName) ==
    LET q == [r EXCEPT !.ensName = ensName, !.name = ""]
    IN IF amberdataApiKeySetting # ""
       THEN [q EXCEPT !.pc = "token", !.calls = @ \cup {"getToken"}]
       ELSE [q EXCEPT !.pc = "done", !.command = ResolvedCommand(q)]

\* connection.onCodeLensResolve up to its first remote wait, for a lens of
\* the list answered last.
onCodeLensResolve ==
    /\ initialized
    /\ Len(resolves) < MaxResolves
    /\ \E n \in 1..Len(codeLenses.result) :
          LET r == NewResolve(codeLenses.result[n])
              network == r.codeLens.data[2]
          IN resolves' = Append(resolves,
                IF IsMainnet(network)
                THEN IF ens = NoProvider
                     THEN [r EXCEPT !.pc = "failed", !.raised = "reverseENSLookup"]
                     ELSE [r EXCEPT !.pc = "reverse", !.calls = {"reverse"}]
                ELSE [r EXCEPT !.command = ResolvedCommand(r)])
    /\ UNCHANGED <<unresolved, ensLog>>

\* ens.reverse(address).name() settles for a resolve request.
ResolveReverseAnswer ==
    \E n \in 1..Len(resolves), answer \in ReverseAnswers :
       /\ resolves[n].pc = "reverse"
       /\ LET r == resolves[n]
              address == r.codeLens.data[3]
          IN IF answer = Rejected
             THEN /\ resolves' = [resolves EXCEPT ![n] = AfterResolveLookup(r, "")]
                  /\ ensLog' = LogEntry(address, Rejected, EmptyString, "")
             ELSE /\ resolves' = [resolves EXCEPT ![n] =
                                     [r EXCEPT !.pc = "forward", !.name = answer,
                                               !.calls = @ \cup {"forward"}]]
                  /\ ensLog' = ensLog
       /\ UNCHANGED unresolved

\* ens.resolver(name).addr() settles for a resolve request.
ResolveForwardAnswer ==
    \E n \in 1..Len(resolves), answer \in ForwardAnswers :
       /\ resolves[n].pc = "forward"
       /\ LET r == resolves[n]
              address == r.codeLens.data[3]
              addr == ENSLookupResult(answer)
              result == reverseENSLookupResult(address, r.name, addr)
          IN /\ resolves' = [resolves EXCEPT ![n] = AfterResolveLookup(r, result)]
             /\ ensLog' = LogEntry(address, r.name, addr, result)
       /\ UNCHANGED unresolved

\* The token request of getToken settles for a resolve request: an error
\* and a payload without token leave the token undefined.
ResolveTokenAnswer ==
    \E n \in 1..Len(resolves), answer \in TokenAnswers :
       /\ resolves[n].pc = "token"
       /\ LET q == [resolves[n] EXCEPT !.token = IF answer = "token" THEN "token" ELSE @,
                                       !.answer = answer]
          IN resolves' = [resolves EXCEPT ![n] =
                            [q EXCEPT !.pc = "done", !.command = ResolvedCommand(q)]]
       /\ UNCHANGED <<unresolved, ensLog>>

\* -------------------------------------------------------------- completion
\* The answers of the market backend to the request for the token rankings.
TopTokensAnswers == {"error", "none", "data"}

\* The labels of the snippets of onCompletion, in the order they are inserted.
Snippets ==
    <<"DeFi: Uniswap token", "DeFi: Uniswap pair", "DeFi: Uniswap route",
      "DeFi: Uniswap trade", "DeFi: pTokens", "DeFi: pTokens (web3)",
      "DeFi: pTokens (pBTC deposit address)">>

\* Faulty variant: the error of the request reaches the caller.
getTopTokensUncaught(answer) ==
    [tokens |-> IF answer = "data" THEN <<"token">> ELSE <<>>,
     raised |-> IF answer = "error" THEN "getTopTokens" ELSE ""]

\* getTopTokens once the request settled: the tokens of the payload; an
\* error is logged by the callback and by the catch, and the list stays empty.
getTopTokensResult(answer) ==
    [tokens |-> IF answer = "data" THEN <<"token">> ELSE <<>>, raised |-> ""]

\* The completion items: one per token, then the snippets.
CompletionItems(tokens) ==
    [n \in 1..Len(tokens) |-> [kind |-> "Value", label |-> tokens[n]]]
    \o [n \in 1..Len(Snippets) |-> [kind |-> "Snippet", label |-> Snippets[n]]]

NewCompletion ==
    [pc |-> "tokens", tokens |-> <<>>, items |-> <<>>,
     requested |-> FALSE,   \* getTopTokens sent its request
     answer |-> "",         \* what the market backend answered
     raised |-> ""]         \* the call that raised into the handler

\* What a completion request leaves alone.
uncompleted ==
    <<initialized, hasConfigurationCapability, hasDiagnosticRelatedInformationCapability,
      globalSettings, documentSettings, promises, documents, openOrder, web3provider, ens,
      amberdataApiKeySetting, passes, published, ensLog, hovers, codeActions, codeLenses,
      resolves>>

\* connection.onCompletion up to the remote wait of getTopTokens, which sends
\* its request unless the key is "".
onCompletion ==
    /\ initialized
    /\ Len(completions) < MaxCompletions
    /\ completions' = Append(completions,
          IF amberdataApiKeySetting # ""
          THEN [NewCompletion EXCEPT !.requested = TRUE]
          ELSE [NewCompletion EXCEPT !.pc = "done", !.items = CompletionItems(<<>>)])
    /\ UNCHANGED uncompleted

\* The request of getTopTokens settles and the completion returns.
CompletionAnswer ==
    /\ \E c \in 1..Len(completions), answer \in TopTokensAnswers :
          /\ completions[c].pc = "tokens"
          /\ LET result == getTopTokensResult(answer)
             IN completions' = [completions EXCEPT ![c] =
                   IF result.raised # ""
                   THEN [@ EXCEPT !.pc = "failed", !.answer = answer,
                                  !.raised = result.raised]
                   ELSE [@ EXCEPT !.pc = "done", !.answer = answer,
                                  !.tokens = result.tokens,
                                  !.items = CompletionItems(result.tokens)]]
    /\ UNCHANGED uncompleted

\* ------------------------------------------------------------ quick fixes
\* A diagnostic code is the string prefix + checksum + name; a code that is
\* missing reads "undefined" through String().
NoCode == Code(Undefined, EmptyString, "")

\* String(diagnostic.code).startsWith(prefix): no prefix of the pool is the
\* beginning of another.
startsWith(code, prefix) == code.prefix = prefix

\* Faulty variant: the replacement is the whole code.
substringFromStart(code, prefix) == code

\* String(diagnostic.code).substring(prefix.length), the code starting with
\* the prefix: what follows the prefix.
substringFrom(code, prefix) == [code EXCEPT !.prefix = ""]

Title(text, replacement) == [text |-> text, replacement |-> replacement]

getQuickFix(diagnostic, title, range, replacement, uri) ==
    [title |-> title,
     kind |-> "quickfix",
     edit |-> [uri |-> uri, changes |-> <<[range |-> range, newText |-> replacement]>>],
     diagnostics |-> <<diagnostic>>]

RECURSIVE getCodeActions(_, _, _)
getCodeActions(diagnostics, uri, codeActionsSoFar) ==
    IF diagnostics = <<>> THEN codeActionsSoFar
    ELSE LET diagnostic == Head(diagnostics)
             fixes ==
                IF startsWith(diagnostic.code, DIAGNOSTIC_TYPE_NOT_CHECKSUM_ADDRESS)
                THEN LET replacement ==
                             substringFrom(diagnostic.code, DIAGNOSTIC_TYPE_NOT_CHECKSUM_ADDRESS)
                     IN <<getQuickFix(diagnostic,
                                      Title("Convert to checksum address", NoCode),
                                      diagnostic.range, replacement, uri)>>
                ELSE IF startsWith(diagnostic.code, DIAGNOSTIC_TYPE_CONVERT_ENS_NAME)
                     THEN LET replacement ==
                                  substringFrom(diagnostic.code, DIAGNOSTIC_TYPE_CONVERT_ENS_NAME)
                          IN <<getQuickFix(diagnostic,
                                           Title("Convert to ENS name", replacement),
                                           diagnostic.range, replacement, uri)>>
                     ELSE <<>>
         IN getCodeActions(Tail(diagnostics), uri, codeActionsSoFar \o fixes)

\* A diagnostic of another source, without a code or with a code of its own.
ForeignDiagnostic(code) ==
    [severity |-> "Information",
     range |-> [start |-> [line |-> 0, character |-> 0],
                end |-> [line |-> 0, character |-> 1]],
     message |-> Message(EmptyString, "foreign", ""),
     source |-> "other",
     code |-> code,
     relatedInformation |-> <<>>]

ForeignCodes == {NoCode, Code("E1", EmptyString, "")}

\* The diagnostics a client may send with a code-action request for a
\* document: a run of those published for it, behind or without a foreign one.
ContextDiagnostics(uri) ==
    LET ds == published[uri].diagnostics
        runs == {<<>>} \cup {SubSeq(ds, a, b) : a \in 1..Len(ds), b \in 1..Len(ds)}
    IN runs \cup {<<ForeignDiagnostic(code)>> \o run : code \in ForeignCodes, run \in runs}

\* connection.onCodeAction
onCodeAction ==
    /\ initialized
    /\ \E uri \in Docs :
          \E diagnostics \in ContextDiagnostics(uri) :
             codeActions' =
                [answered |-> TRUE, uri |-> uri, diagnostics |-> diagnostics,
                 result |-> IF documents[uri] = NotOpen
                            THEN <<>>
                            ELSE getCodeActions(diagnostics, uri, <<>>)]
    /\ UNCHANGED <<initialized, hasConfigurationCapability,
                   hasDiagnosticRelatedInformationCapability, globalSettings,
                   documentSettings, promises, documents, openOrder, web3provider, ens,
                   amberdataApiKeySetting, passes, published, ensLog, hovers,
                   codeLenses, resolves, completions>>

\* The lexemes of the document whose span is the range.
SpanAt(text, range) == {k \in 1..Len(text) : StringLocation(text, k).range = range}

\* The lexemes of a replacement string: an address when the string is the 42
\* characters of one, some other string otherwise.
NewText(replacement) ==
    IF replacement.prefix = "" /\ replacement.name = "" /\ replacement.checksum # EmptyString
    THEN <<[kind |-> "addr", ch |-> "", content |-> replacement.checksum]>>
    ELSE <<OtherWord>>

\* The client applies a text edit: the characters of the range are replaced
\* by the new text.
applyEdit(text, change) ==
    LET k == CHOOSE j \in SpanAt(text, change.range) : TRUE
    IN SubSeq(text, 1, k - 1) \o NewText(change.newText) \o SubSeq(text, k + 1, Len(text))

\* The user takes a quick fix for a checksum warning from the answer to the
\* last code-action request: the client applies its edit to the document and
\* reports the change, and documents.onDidChangeContent starts a pass.
ApplyChecksumFix ==
    /\ initialized
    /\ Len(passes) < MaxPasses
    /\ codeActions.answered
    /\ \E n \in 1..Len(codeActions.result) :
          LET action == codeActions.result[n]
              uri == action.edit.uri
              change == action.edit.changes[1]
              text == documents[uri]
              k == Len(passes) + 1
          IN /\ startsWith(action.diagnostics[1].code, DIAGNOSTIC_TYPE_NOT_CHECKSUM_ADDRESS)
             /\ text # NotOpen
             /\ SpanAt(text, change.range) # {}
             /\ Apply([validateTextDocument(
                          [Cur EXCEPT !.documents[uri] = applyEdit(text, change)], uri)
                       EXCEPT !.passes[k].fixed = <<[action |-> action, before |-> text]>>])

\* --------------------------------------------------------- specifications
onDidChangeContent == DidChangeContent(MaxPasses)
onDidChangeConfiguration == DidChangeConfiguration(MaxPasses)

Next ==
    \/ onInitialize
    \/ onDidChangeContent
    \/ onDidChangeConfiguration
    \/ ConfigurationAnswer
    \/ ReverseAnswer
    \/ ForwardAnswer

\* Validation passes of documents that stay open.
Spec == Init /\ [][Next]_vars

\* The passes of one document, of a client that takes related information,
\* when every remote answer a pass waits for arrives: the client answers each
\* configuration request, and each lookup of the naming backend resolves or
\* rejects.
NextOneDocument ==
    \/ onInitialize /\ hasDiagnosticRelatedInformationCapability'
    \/ onDidChangeContent /\ documents'["d2"] = NotOpen
    \/ onDidChangeConfiguration
    \/ ConfigurationAnswer
    \/ ReverseAnswer
    \/ ForwardAnswer

\* ConfigurationAnswer is enabled exactly when a configuration request is
\* unanswered, and its weak fairness is written with that condition.
ConfigurationPending == \E r \in 1..Len(promises) : ~promises[r].resolved

SpecFair ==
    /\ Init
    /\ [][NextOneDocument]_vars
    /\ []<>(~ConfigurationPending) \/ []<><<ConfigurationAnswer>>_vars
    /\ WF_vars(ReverseAnswer)
    /\ WF_vars(ForwardAnswer)

\* Passes of documents that are opened, edited and closed, the second
\* document with an empty text, of a client that takes related information.
NextCache ==
    \/ onInitialize /\ hasDiagnosticRelatedInformationCapability'
    \/ onDidChangeContent /\ documents'["d2"] \in {NotOpen, <<>>}
    \/ onDidChangeConfiguration
    \/ ConfigurationAnswer
    \/ ReverseAnswer
    \/ ForwardAnswer
    \/ onDidClose

SpecCache == Init /\ [][NextCache]_vars

\* Validation passes that do not overlap with another pass.
ChangeContentOnce == DidChangeContent(MaxSoloPasses)
ChangeConfigurationOnce == DidChangeConfiguration(MaxSoloPasses)

NextSolo ==
    \/ onInitialize
    \/ ChangeContentOnce
    \/ ChangeConfigurationOnce
    \/ ConfigurationAnswer
    \/ ReverseAnswer
    \/ ForwardAnswer

SpecSolo == Init /\ [][NextSolo]_vars

\* Such passes, and hover requests.

NextHover ==
    \/ onInitialize
    \/ ChangeContentOnce
    \/ ChangeConfigurationOnce
    \/ ConfigurationAnswer
    \/ ReverseAnswer
    \/ ForwardAnswer
    \/ onHover
    \/ HoverNameAnswer
    \/ HoverTokenAnswer
    \/ HoverReverseAnswer
    \/ HoverForwardAnswer
    \/ HoverBalanceAnswer
    \/ HoverValueAnswer
    \/ HoverHoldingsAnswer

SpecHover == Init /\ [][NextHover]_vars

\* Such passes, and code-action requests.
NextCodeAction ==
    \/ onInitialize
    \/ ChangeContentOnce
    \/ ChangeConfigurationOnce
    \/ ConfigurationAnswer
    \/ ReverseAnswer
    \/ ForwardAnswer
    \/ onCodeAction

SpecCodeAction == Init /\ [][NextCodeAction]_vars

\* Such passes and code-action requests, and a pass after a quick fix.
NextQuickFix ==
    \/ onInitialize
    \/ ChangeContentOnce
    \/ ChangeConfigurationOnce
    \/ ConfigurationAnswer
    \/ ReverseAnswer
    \/ ForwardAnswer
    \/ onCodeAction
    \/ ApplyChecksumFix

SpecQuickFix == Init /\ [][NextQuickFix]_vars

\* Such passes, and code-lens requests.
NextCodeLens ==
    \/ onInitialize
    \/ ChangeContentOnce
    \/ ChangeConfigurationOnce
    \/ ConfigurationAnswer
    \/ ReverseAnswer
    \/ ForwardAnswer
    \/ onCodeLens

SpecCodeLens == Init /\ [][NextCodeLens]_vars

\* Such passes, code-lens requests and code-lens resolve requests.
NextResolve ==
    \/ onInitialize
    \/ ChangeContentOnce
    \/ ChangeConfigurationOnce
    \/ ConfigurationAnswer
    \/ ReverseAnswer
    \/ ForwardAnswer
    \/ onCodeLens
    \/ onCodeLensResolve
    \/ ResolveReverseAnswer
    \/ ResolveForwardAnswer
    \/ ResolveTokenAnswer

SpecResolve == Init /\ [][NextResolve]_vars

\* Such passes, code-lens requests with their resolve requests, and
\* completion requests.
NextMarket ==
    \/ onInitialize
    \/ ChangeContentOnce
    \/ ChangeConfigurationOnce
    \/ ConfigurationAnswer
    \/ ReverseAnswer
    \/ ForwardAnswer
    \/ onCodeLens
    \/ onCodeLensResolve
    \/ ResolveReverseAnswer
    \/ ResolveForwardAnswer
    \/ ResolveTokenAnswer
    \/ onCompletion
    \/ CompletionAnswer

SpecMarket == Init /\ [][NextMarket]_vars

\* Passes that do not overlap, of documents that are opened and closed.
NextClose ==
    \/ onInitialize
    \/ ChangeContentOnce
    \/ ChangeConfigurationOnce
    \/ ConfigurationAnswer
    \/ ReverseAnswer
    \/ ForwardAnswer
    \/ onDidClose

SpecClose == Init /\ [][NextClose]_vars

\* ------------------------------------------------------------------ claims
\* The passes whose settings arrived: they scanned their document.
ScannedPasses == {k \in 1..Len(passes) : passes[k].pc # "settings"}

\* The candidates of pass p the loop examined so far within the problem limit.
Processed(p) ==
    {j \in 1..Len(p.cands) :
        /\ j <= p.settings.maxNumberOfProblems
        /\ j < p.i \/ (j = p.i /\ p.pc \in {"reverse", "forward", "failed"})}

\* The diagnostics of pass p on the span of candidate j with the given severity.
DiagnosticsAt(p, j, severity) ==
    {n \in 1..Len(p.diagnostics) :
        /\ p.diagnostics[n].range = p.cands[j].range
        /\ p.diagnostics[n].severity = severity}

CanonicalForm(content) == Addr(content.id, ChecksumCase(content.id))
OneCase(content) == content.cs \in {AllLower, AllUpper}

\* C1: every diagnostic set published by a pass has at most
\* settings.maxNumberOfProblems diagnostics.
C1_AtMostMaxProblems ==
    \A d \in Docs :
        published[d].by # 0 =>
            Len(published[d].diagnostics)
                <= passes[published[d].by].settings.maxNumberOfProblems

\* The forward lookup of call confirmed the name: ENSLookup returned an
\* address, and it is the argument after checksum normalization.
Confirmed(call) ==
    /\ call.name \in Names
    /\ call.addr # EmptyString
    /\ call.addr # ZeroAddress
    /\ call.addr.id = call.address.id

\* C2: reverseENSLookup returns a non-empty name only when the forward lookup
\* of that name returned its argument (after checksum normalization), and the
\* empty string otherwise; every ENS hint of a pass and every ENS line of a
\* hover shows a name confirmed that way for the address it is shown for.
C2_OnlyConfirmedNames ==
    /\ ensLog.result # "" => Confirmed(ensLog) /\ ensLog.result = ensLog.name
    /\ ~Confirmed(ensLog) => ensLog.result = ""
    /\ \A k \in 1..Len(passes) :
          \A n \in 1..Len(passes[k].diagnostics) :
             LET diagnostic == passes[k].diagnostics[n]
             IN diagnostic.severity = "Hint" =>
                   \E call \in passes[k].shown :
                      /\ Confirmed(call)
                      /\ call.address = diagnostic.message.subject
                      /\ call.name = diagnostic.code.name
    /\ \A h \in 1..Len(hovers) :
          \A n \in 1..Len(hovers[h].contents) :
             hovers[h].contents[n].section = "ens" =>
                /\ Confirmed(hovers[h].call)
                /\ hovers[h].call.address = hovers[h].address
                /\ hovers[h].call.name = hovers[h].contents[n].name

\* C2 witness: a pass shows an ENS hint for a name whose forward lookup
\* returned the address in another letter case.
C2_Witness ==
    \E k \in 1..Len(passes) :
       \E n \in 1..Len(passes[k].diagnostics) :
          /\ passes[k].diagnostics[n].severity = "Hint"
          /\ \E call \in passes[k].shown : call.addr # call.address

\* C3: of two passes of one document that both published, the one started
\* first is not the one whose diagnostics were published last.
C3_LaterPassReplaces ==
    \A k1 \in 1..Len(passes), k2 \in 1..Len(passes) :
        (/\ k1 < k2
         /\ passes[k1].doc = passes[k2].doc
         /\ passes[k1].pc = "done"
         /\ passes[k2].pc = "done")
        => published[passes[k1].doc].by # k1

HasValidCandidate(p) ==
    \E j \in 1..Len(p.cands) : isValidEthereumAddress(p.cands[j].content)

\* C4: while no resolver was ever configured, a pass with an empty
\* infuraProjectId over a document with a valid address has published.
C4_PublishesWithoutCredentials ==
    \A k \in ScannedPasses :
        (/\ ens = NoProvider
         /\ passes[k].settings.infuraProjectId = ""
         /\ HasValidCandidate(passes[k]))
        => passes[k].pc = "done" /\ published[passes[k].doc].by # 0

\* C5: no call of reverseENSLookup or ENSLookup raises to its caller.
C5_LookupsNeverRaise ==
    /\ \A k \in 1..Len(passes) : passes[k].raised \notin {"reverseENSLookup", "ENSLookup"}
    /\ \A h \in 1..Len(hovers) : hovers[h].raised \notin {"reverseENSLookup", "ENSLookup"}

\* C6: no hover fails for another reason than a name lookup that raised
\* (C5): a failing balance, value or holdings lookup leaves a payload.
C6_HoverCompletes ==
    \A h \in 1..Len(hovers) :
        hovers[h].pc = "failed" => hovers[h].raised \in {"reverseENSLookup", "ENSLookup"}

\* C7: when the passes run on different documents, the lookups of a pass
\* whose settings configure a resolver go to that resolver only.
C7_OwnResolver ==
    (\A k1 \in 1..Len(passes), k2 \in 1..Len(passes) :
        k1 # k2 => passes[k1].doc # passes[k2].doc)
    => \A k \in ScannedPasses :
          passes[k].settings.infuraProjectId # ""
          => passes[k].usedEns \subseteq {HttpProvider(passes[k].settings)}

NonHexCharacters == {" ", "\n", "g"}
AddressTokens(text) == {j \in 1..Len(text) : text[j].kind = "addr"}
BoundedByNonHex(text) ==
    \A j \in AddressTokens(text) :
        /\ j = 1 \/ text[j - 1].ch \in NonHexCharacters
        /\ j = Len(text) \/ text[j + 1].ch \in NonHexCharacters
NthToken(text, n) ==
    CHOOSE j \in AddressTokens(text) :
        Cardinality({i \in AddressTokens(text) : i <= j}) = n

\* C8: on a text whose N address tokens are bounded by non-hex characters,
\* the scan of a pass returns the spans of the first min(N, cap) tokens, in
\* order, cap being the pass's maxNumberOfProblems.
C8_ScanReturnsMinOfTokensAndCap ==
    \A k \in ScannedPasses :
        LET p == passes[k]
            N == Cardinality(AddressTokens(p.text))
            cap == p.settings.maxNumberOfProblems
        IN BoundedByNonHex(p.text) =>
              /\ Len(p.cands) = IF N <= cap THEN N ELSE cap
              /\ \A n \in 1..Len(p.cands) :
                    p.cands[n] = StringLocation(p.text, NthToken(p.text, n))

C10_InvalidCandidateIsTerminal ==
    \A k \in ScannedPasses :
        LET p == passes[k]
        IN /\ \A j \in Processed(p) :
                 ~isValidEthereumAddress(p.cands[j].content) =>
                    /\ Cardinality(DiagnosticsAt(p, j, "Error")) = 1
                    /\ DiagnosticsAt(p, j, "Warning") = {}
                    /\ DiagnosticsAt(p, j, "Hint") = {}
                    /\ j \notin p.lookups
                    /\ j < p.i
           /\ \A j \in Processed(p) :
                 isValidEthereumAddress(p.cands[j].content) =>
                    DiagnosticsAt(p, j, "Error") = {}

\* C10 witness: a pass that published examined an invalid candidate and,
\* after it, a valid one for which it sent a lookup and added a hint.
C10_Witness ==
    \E k \in ScannedPasses :
        /\ passes[k].pc = "done"
        /\ \E j1 \in Processed(passes[k]), j2 \in Processed(passes[k]) :
              /\ j1 < j2
              /\ ~isValidEthereumAddress(passes[k].cands[j1].content)
              /\ j2 \in passes[k].lookups
              /\ DiagnosticsAt(passes[k], j2, "Hint") # {}

\* C11: a valid candidate for which reverseENSLookup returned a name has
\* exactly one hint on its span, whose code is the ENS prefix followed by
\* that name, whether or not the span has a checksum warning; a candidate
\* for which it returned the empty string has no hint; and no other span has
\* a hint.
C11_HintForResolvedName ==
    \A k \in ScannedPasses :
        LET p == passes[k]
        IN /\ \A r \in p.returned :
                 LET hints == DiagnosticsAt(p, r.i, "Hint")
                 IN /\ isValidEthereumAddress(p.cands[r.i].content)
                    /\ IF r.name # ""
                       THEN /\ Cardinality(hints) = 1
                            /\ \A n \in hints :
                                  p.diagnostics[n].code =
                                     Code(DIAGNOSTIC_TYPE_CONVERT_ENS_NAME, EmptyString, r.name)
                       ELSE hints = {}
           /\ \A j \in 1..Len(p.cands) :
                 (\A r \in p.returned : r.i # j) => DiagnosticsAt(p, j, "Hint") = {}

\* C11 witness: a pass that published had a name returned for a span with a
\* checksum warning and for a span without one.
C11_Witness ==
    \E k \in ScannedPasses :
        LET p == passes[k]
        IN /\ p.pc = "done"
           /\ \E r \in p.returned :
                 r.name # "" /\ DiagnosticsAt(p, r.i, "Warning") # {}
           /\ \E r \in p.returned :
                 r.name # "" /\ DiagnosticsAt(p, r.i, "Warning") = {}

RecognizedPrefixes == {DIAGNOSTIC_TYPE_NOT_CHECKSUM_ADDRESS, DIAGNOSTIC_TYPE_CONVERT_ENS_NAME}

\* The diagnostics of a request, by position, whose code has a recognized prefix.
Recognized(diagnostics) ==
    {n \in 1..Len(diagnostics) : diagnostics[n].code.prefix \in RecognizedPrefixes}

\* C12: the answer to a code-action request for an open document has one
\* action for each given diagnostic whose code starts with the checksum or
\* the ENS-name prefix, in the order given: a quick fix for that diagnostic
\* with a single text edit, on the diagnostic's range, whose new text is the
\* code without the prefix; there is no action for any other diagnostic.
C12_QuickFixPerRecognizedCode ==
    (codeActions.answered /\ documents[codeActions.uri] # NotOpen) =>
        LET given == codeActions.diagnostics
            result == codeActions.result
        IN /\ Len(result) = Cardinality(Recognized(given))
           /\ \A n \in Recognized(given) :
                 LET action == result[Cardinality({i \in Recognized(given) : i <= n})]
                 IN /\ action.kind = "quickfix"
                    /\ action.diagnostics = <<given[n]>>
                    /\ action.edit.uri = codeActions.uri
                    /\ Len(action.edit.changes) = 1
                    /\ action.edit.changes[1].range = given[n].range
                    /\ action.edit.changes[1].newText =
                          Code("", given[n].code.checksum, given[n].code.name)

\* C12 witness: a request with an error without quick fix, a checksum
\* warning and an ENS hint was answered with two actions.
C12_Witness ==
    /\ codeActions.answered
    /\ Len(codeActions.result) = 2
    /\ \E n \in 1..Len(codeActions.diagnostics) :
          codeActions.diagnostics[n].code.prefix = DIAGNOSTIC_TYPE_NOT_VALID_ADDRESS
    /\ \E n \in 1..Len(codeActions.diagnostics) :
          codeActions.diagnostics[n].code.prefix = DIAGNOSTIC_TYPE_NOT_CHECKSUM_ADDRESS
    /\ \E n \in 1..Len(codeActions.diagnostics) :
          codeActions.diagnostics[n].code.prefix = DIAGNOSTIC_TYPE_CONVERT_ENS_NAME

\* The lenses of the list answered last, by position, on the given range.
LensesAt(range) ==
    {n \in 1..Len(codeLenses.result) : codeLenses.result[n].range = range}

\* Exactly one lens per network on the range, and each of the given type
\* and for the given address.
OneLensPerNetwork(range, codeLensType, address) ==
    /\ Cardinality(LensesAt(range)) = Len(NETWORKS)
    /\ \A i \in 1..Len(NETWORKS) :
          \E n \in LensesAt(range) : codeLenses.result[n].data[2] = NETWORKS[i]
    /\ \A n \in LensesAt(range) :
          /\ codeLenses.result[n].data[1] = codeLensType
          /\ codeLenses.result[n].data[3] = address

\* C13: the list answered to a code-lens request has, for every scanned
\* address span that passes the validity test, exactly one lens per network
\* of NETWORKS, on the span's range and with the span's address, and no lens
\* for a span that fails the test; it is empty for a document that is not
\* open.
C13_LensPerNetwork ==
    codeLenses.answered =>
        IF codeLenses.text = NotOpen
        THEN codeLenses.result = <<>>
        ELSE LET spans == findPossibleEthereumAddresses(codeLenses.text)
             IN \A j \in 1..Len(spans) :
                   IF isValidEthereumAddress(spans[j].content)
                   THEN OneLensPerNetwork(spans[j].range, CODE_LENS_TYPE_ETH_ADDRESS,
                                          spans[j].content)
                   ELSE LensesAt(spans[j].range) = {}

\* C13 witness: a list was answered for a text with a span that passes the
\* validity test and a span that fails it.
C13_Witness ==
    /\ codeLenses.answered
    /\ codeLenses.text # NotOpen
    /\ codeLenses.result # <<>>
    /\ LET spans == findPossibleEthereumAddresses(codeLenses.text)
       IN /\ \E j \in 1..Len(spans) : isValidEthereumAddress(spans[j].content)
          /\ \E j \in 1..Len(spans) : ~isValidEthereumAddress(spans[j].content)

\* C14: answering a code-lens request sends no remote call and leaves every
\* pass and every request where it is; and a resolve request for a lens of
\* another network than the mainnet has sent no remote call and is answered
\* at once, so the name and token lookups of a lens are those of a resolve
\* request for its mainnet lens.
C14_LookupsOnlyOnMainnetResolve ==
    /\ [](\A n \in 1..Len(resolves) :
            resolves[n].codeLens.data[2] # MAINNET =>
               /\ resolves[n].calls = {}
               /\ resolves[n].pc = "done"
               /\ resolves[n].command.ensName = ""
               /\ resolves[n].command.token = Undefined)
    /\ [][codeLenses' # codeLenses =>
             UNCHANGED <<promises, passes, hovers, resolves, completions, ensLog>>]_vars

\* C14 witness: after a list was answered, a resolve request for a mainnet
\* lens sent the reverse lookup, the forward lookup and the token request.
C14_Witness ==
    /\ codeLenses.answered
    /\ \E n \in 1..Len(resolves) :
          /\ resolves[n].codeLens.data[2] = MAINNET
          /\ resolves[n].calls = {"reverse", "forward", "getToken"}
          /\ resolves[n].pc = "done"

\* The 64-hex-digit tokens of a text, by position.
KeyTokens(text) == {k \in 1..Len(text) : text[k].kind = "key"}

MarketAnswers ==
    \/ \E c \in 1..Len(completions) : completions'[c].answer # completions[c].answer
    \/ \E n \in 1..Len(resolves) : resolves'[n].answer # resolves[n].answer

\* C16: a failing market backend changes nothing for the validation passes:
\* no answer of the market backend changes a pass or what is published, and
\* a pass that published has, for each candidate it examined, the one error
\* or the one checksum warning the local tests give.  After an error of the
\* backend getTopTokens has returned the empty list and getToken no token,
\* and neither raised.
C16_MarketFailureIsAbsorbed ==
    /\ [][MarketAnswers => UNCHANGED <<passes, published>>]_vars
    /\ [](\A k \in ScannedPasses :
            passes[k].pc = "done" =>
               /\ published[passes[k].doc].by # 0
               /\ \A j \in Processed(passes[k]) :
                     LET content == passes[k].cands[j].content
                         valid == isValidEthereumAddress(content)
                     IN /\ Cardinality(DiagnosticsAt(passes[k], j, "Error"))
                              = IF valid THEN 0 ELSE 1
                        /\ Cardinality(DiagnosticsAt(passes[k], j, "Warning"))
                              = IF valid /\ content # CanonicalForm(content) THEN 1 ELSE 0)
    /\ [](\A c \in 1..Len(completions) :
            completions[c].answer = "error" =>
               /\ completions[c].pc = "done"
               /\ completions[c].tokens = <<>>
               /\ completions[c].raised = "")
    /\ [](\A n \in 1..Len(resolves) :
            resolves[n].answer = "error" =>
               /\ resolves[n].pc = "done"
               /\ resolves[n].token = Undefined
               /\ resolves[n].raised = "")

\* C16 witness: the market backend answered the token rankings request and
\* the token request with an error, and a pass has published an error and a
\* checksum warning.
C16_Witness ==
    /\ \E c \in 1..Len(completions) : completions[c].answer = "error"
    /\ \E n \in 1..Len(resolves) : resolves[n].answer = "error"
    /\ \E d \in Docs :
          /\ published[d].by # 0
          /\ \E n \in 1..Len(published[d].diagnostics) :
                published[d].diagnostics[n].severity = "Error"
          /\ \E n \in 1..Len(published[d].diagnostics) :
                published[d].diagnostics[n].severity = "Warning"

\* C17: while no pass has read settings with a market key (no pass has run,
\* or every pass so far read an empty amberdataApiKey), getTopTokens, getToken
\* and the value and holdings part of the hover have sent no market request.
C17_NoMarketRequestWithoutKey ==
    (\A k \in ScannedPasses : passes[k].settings.amberdataApiKey = "") =>
        /\ \A c \in 1..Len(completions) : ~completions[c].requested
        /\ \A n \in 1..Len(resolves) : "getToken" \notin resolves[n].calls
        /\ \A h \in 1..Len(hovers) : hovers[h].pc \notin {"token", "value", "holdings"}

\* C18: the settings cache has entries for open documents only.
C18_CacheOnlyForOpenDocuments ==
    \A d \in Docs : documentSettings[d] # 0 => documents[d] # NotOpen

\* C18 witness: a document whose pass put an entry in the cache was closed
\* while the pass waited, the pass went on after that, and the cache has no
\* entry for the document.
C18_Witness ==
    \E k \in 1..Len(passes) :
        /\ passes[k].promise # 0
        /\ passes[k].detached
        /\ passes[k].pc = "done"
        /\ documents[passes[k].doc] = NotOpen
        /\ documentSettings[passes[k].doc] = 0

\* The passes started after the last configuration change.
CurrentPasses == {k \in 1..Len(passes) : ~passes[k].superseded}

\* C19: every open document has a pass started with or after the last
\* configuration change; such a pass uses settings obtained after the
\* change: with the configuration capability a configuration request sent
\* after the change, and its answer, without it the global settings as the
\* change left them; and the cache holds no request sent before the change.
C19_FreshSettingsAfterChange ==
    /\ \A d \in Docs :
          documents[d] # NotOpen => \E k \in CurrentPasses : passes[k].doc = d
    /\ \A d \in Docs :
          documentSettings[d] # 0 => ~promises[documentSettings[d]].stale
    /\ \A k \in CurrentPasses :
          IF hasConfigurationCapability
          THEN /\ passes[k].promise # 0
               /\ ~promises[passes[k].promise].stale
               /\ k \in ScannedPasses =>
                     /\ promises[passes[k].promise].resolved
                     /\ passes[k].settings = promises[passes[k].promise].value
          ELSE /\ k \in ScannedPasses
               /\ passes[k].settings = globalSettings

\* C19 witness: a configuration change came while a document was open, and
\* the pass it started read other settings than the pass before it.
C19_Witness ==
    \E k1 \in 1..Len(passes), k2 \in CurrentPasses :
        /\ passes[k1].superseded
        /\ passes[k1].doc = passes[k2].doc
        /\ k1 \in ScannedPasses
        /\ k2 \in ScannedPasses
        /\ passes[k1].settings # passes[k2].settings

\* The span of range r1 starts before the span of range r2 in the text.
StartsBefore(r1, r2) ==
    \/ r1.start.line < r2.start.line
    \/ r1.start.line = r2.start.line /\ r1.start.character < r2.start.character

\* C20: in every published diagnostic set, a diagnostic is on the same span
\* as the one before it or on a span further on in the text, and of two
\* diagnostics on one span the first is the checksum warning and the second
\* the ENS-name hint.
C20_PublishedInScanOrder ==
    \A d \in Docs :
        LET ds == published[d].diagnostics
        IN \A n1 \in 1..Len(ds), n2 \in 1..Len(ds) :
              n1 < n2 =>
                 IF ds[n1].range = ds[n2].range
                 THEN ds[n1].severity = "Warning" /\ ds[n2].severity = "Hint"
                 ELSE StartsBefore(ds[n1].range, ds[n2].range)

\* C20 witness: a published set has a warning and a hint on one span and a
\* diagnostic on a later span.
C20_Witness ==
    \E d \in Docs :
        LET ds == published[d].diagnostics
        IN \E n1 \in 1..Len(ds), n2 \in 1..Len(ds), n3 \in 1..Len(ds) :
              /\ n1 < n2
              /\ n2 < n3
              /\ ds[n1].range = ds[n2].range
              /\ ds[n3].range # ds[n2].range

\* The position of the character at offset o of the text: its line is the
\* number of line breaks before it.
PositionOf(text, o) ==
    [line |-> Cardinality({b \in LineBreakOffsets(text) : b < o}),
     character |-> o - LineStart(text, o)]

\* The number of characters of the given line of the text, its line break
\* not counted.
LineLength(text, line) ==
    Cardinality({o \in 0..(TextLength(text) - 1) :
                    /\ PositionOf(text, o).line = line
                    /\ o \notin LineBreakOffsets(text)})

\* The position denotes a place of the text.
WithinBounds(text, position) ==
    /\ position.line \in 0..Cardinality(LineBreakOffsets(text))
    /\ position.character \in 0..LineLength(text, position.line)

\* C21: every diagnostic a pass published has the range of an address token
\* of the revision the pass scanned, from the first character of the token to
\* the place after its last, the token being the one its message names; both
\* ends of the range are places of that revision; and the related
\* information, when there is one, has the same range.
C21_RangesOfScannedRevision ==
    \A d \in Docs :
        published[d].by # 0 =>
            LET text == passes[published[d].by].text
                ds == published[d].diagnostics
            IN \A n \in 1..Len(ds) :
                  /\ \E k \in 1..Len(text) :
                        /\ text[k].kind = "addr"
                        /\ text[k].content = ds[n].message.subject
                        /\ ds[n].range.start = PositionOf(text, OffsetOf(text, k))
                        /\ ds[n].range.end =
                              PositionOf(text, OffsetOf(text, k) + AddressTokenLength)
                  /\ WithinBounds(text, ds[n].range.start)
                  /\ WithinBounds(text, ds[n].range.end)
                  /\ \A j \in 1..Len(ds[n].relatedInformation) :
                        ds[n].relatedInformation[j].range = ds[n].range

\* C21 witness: a pass waited for the naming backend, its document was
\* replaced by another text and the pass started by that published, and then
\* the first pass published a diagnostic whose range ends outside the text
\* the document has now.
C21_Witness ==
    \E d \in Docs :
        \E k1 \in 1..Len(passes), k2 \in 1..Len(passes) :
            /\ published[d].by = k1
            /\ k1 < k2
            /\ passes[k2].doc = d
            /\ passes[k2].sent = 1
            /\ passes[k2].text # passes[k1].text
            /\ passes[k1].lookups # {}
            /\ \E n \in 1..Len(published[d].diagnostics) :
                  ~WithinBounds(documents[d], published[d].diagnostics[n].range.end)

\* The calls of sendDiagnostics pass k has made in the current state.
SentBy(k) == IF k <= Len(passes) THEN passes[k].sent ELSE 0

\* C22: once the name resolver is configured, every pass that has started
\* and has not raised eventually is done, having called sendDiagnostics
\* once; no pass calls it more than once, and a pass is done exactly when it
\* has called it; and a step in which a pass calls it leaves, as what was
\* last published for the document of the pass, the diagnostics of a pass of
\* that document that called it in this step.
C22_EveryStartedPassPublishesOnce ==
    /\ \A k \in 1..MaxPasses :
          (k <= Len(passes) /\ ens # NoProvider /\ passes[k].pc # "failed")
             ~> (k <= Len(passes) /\ passes[k].pc = "done" /\ passes[k].sent = 1)
    /\ [](\A k \in 1..Len(passes) :
             /\ passes[k].sent <= 1
             /\ passes[k].pc = "done" <=> passes[k].sent = 1)
    /\ [][\A k \in 1..Len(passes') :
             passes'[k].sent > SentBy(k) =>
                LET now == published'[passes'[k].doc]
                IN /\ now.by \in 1..Len(passes')
                   /\ passes'[now.by].doc = passes'[k].doc
                   /\ passes'[now.by].sent > SentBy(now.by)
                   /\ now.diagnostics = passes'[now.by].diagnostics]_vars

\* C22 witness: with the resolver configured, a pass waited for the naming
\* backend while a newer pass of its document started and published, and
\* then the older pass published as well.
C22_Witness ==
    \E k1 \in 1..Len(passes), k2 \in 1..Len(passes) :
        /\ k1 < k2
        /\ passes[k1].doc = passes[k2].doc
        /\ ens # NoProvider
        /\ passes[k1].lookups # {}
        /\ passes[k1].sent = 1
        /\ passes[k2].sent = 1
        /\ published[passes[k1].doc].by = k1

\* The remote requests of the regular-address block: the reverse name lookup,
\* the balance of the chain node, and the two requests for value and holdings.
RegularAddressCalls == {"reverse", "getBalance", "account-balances", "tokens"}

C24_OneKindInOrder ==
    \A h \in 1..Len(hovers) :
        LET r == hovers[h]
            isAddress == WordIsAddress(r.word)
            isKey == ~isAddress /\ isPrivateKey(normalizeHex(r.word))
        IN /\ isAddress => r.address = r.word.content /\ "word" \notin r.calls
           /\ isKey => r.address = toPublicKey(normalizeHex(r.word)) /\ "word" \notin r.calls
           /\ "word" \in r.calls => ~isAddress /\ ~isKey
           /\ documents[r.doc] = NotOpen => r.pc = "done" /\ r.contents = <<>>
           /\ (~isAddress /\ ~isKey /\ r.pc # "name" /\ r.address = EmptyString) =>
                 r.pc = "done" /\ r.contents = <<>>

\* C25: a quick fix for a checksum warning of a pass has one edit, of the
\* range of the warning, whose new text is the canonical checksum form of
\* the token at that range in the text the pass scanned; the pass started by
\* applying the fix to that text scans the same text with that token in its
\* canonical form, and has neither a warning nor an error at the range; and
\* answering a code-action request starts no pass and sends no remote request.
C25_ChecksumFixRoundTrip ==
    /\ [](\A k \in 1..Len(passes) :
             \A f \in 1..Len(passes[k].fixed) :
                LET fix == passes[k].fixed[f]
                    warning == fix.action.diagnostics[1]
                    before == fix.before
                    p == passes[k]
                IN (\E k0 \in 1..(k - 1) :
                       /\ passes[k0].text = before
                       /\ \E n \in 1..Len(passes[k0].diagnostics) :
                             passes[k0].diagnostics[n] = warning) =>
                   \E j \in 1..Len(before) :
                       /\ before[j].kind = "addr"
                       /\ warning.range.start = PositionOf(before, OffsetOf(before, j))
                       /\ fix.action.edit.changes =
                             <<[range |-> warning.range,
                                newText |-> Code("", CanonicalForm(before[j].content), "")]>>
                       /\ k \in ScannedPasses =>
                             /\ p.text = [before EXCEPT ![j].content = CanonicalForm(@)]
                             /\ \A n \in 1..Len(p.diagnostics) :
                                   p.diagnostics[n].range = warning.range =>
                                      p.diagnostics[n].severity \notin {"Warning", "Error"})
    /\ [][codeActions' # codeActions =>
             UNCHANGED <<promises, passes, published, documents, ensLog, hovers,
                         resolves, completions>>]_vars

\* C25 witness: a checksum fix was applied to the text its warning was
\* computed on, which changed the text, and the pass that followed took the
\* token at the range of the warning for a valid address and published.
C25_Witness ==
    \E k \in 1..Len(passes) :
        /\ passes[k].fixed # <<>>
        /\ passes[k].text # passes[k].fixed[1].before
        /\ \E k0 \in 1..(k - 1) : passes[k0].text = passes[k].fixed[1].before
        /\ passes[k].sent = 1
        /\ \E j \in passes[k].lookups :
              passes[k].cands[j].range = passes[k].fixed[1].action.diagnostics[1].range

\* The configuration requests sent for document d in the step.
NewRequests(d) ==
    {r \in (Len(promises) + 1)..Len(promises') :
        \E k \in 1..Len(passes') : passes'[k].doc = d /\ passes'[k].promise = r}

\* The passes of document d started in the step.
NewPasses(d) == {k \in (Len(passes) + 1)..Len(passes') : passes'[k].doc = d}

\* The step is the close of document d, or a configuration change that came
\* while the cache had a request of d.
Invalidated(d) ==
    \/ documents[d] # NotOpen /\ documents'[d] = NotOpen
    \/ /\ documentSettings[d] # 0
       /\ ~promises[documentSettings[d]].stale
       /\ promises'[documentSettings[d]].stale

\* C26: a step sends at most one configuration request for a document, and
\* the passes of the document it starts wait for the request the cache has
\* for the document after the step; while the cache has a request of a
\* document, a step that neither closes the document nor is a configuration
\* change sends no request for it and leaves the cache entry as it is;
\* every request was sent for the passes of one document; and without the
\* configuration capability no request is sent, no pass has one, and the
\* cache is empty.
C26_OneRequestPerCachePeriod ==
    /\ [][\A d \in Docs :
             /\ Cardinality(NewRequests(d)) <= 1
             /\ \A k \in NewPasses(d) :
                   hasConfigurationCapability =>
                      /\ passes'[k].promise # 0
                      /\ passes'[k].promise = documentSettings'[d]
             /\ (documentSettings[d] # 0 /\ ~Invalidated(d)) =>
                   /\ NewRequests(d) = {}
                   /\ documentSettings'[d] = documentSettings[d]]_vars
    /\ [](\A r \in 1..Len(promises) :
             Cardinality({passes[k].doc : k \in {j \in 1..Len(passes) : passes[j].promise = r}})
                = 1)
    /\ [](~hasConfigurationCapability =>
             /\ promises = <<>>
             /\ \A d \in Docs : documentSettings[d] = 0
             /\ \A k \in 1..Len(passes) : passes[k].promise = 0)

\* C26 witness: two passes of a document that is still open got their
\* settings from one configuration request, the second having started
\* while the first waited for the naming backend.
C26_Witness ==
    \E k1 \in 1..Len(passes), k2 \in 1..Len(passes) :
        /\ k1 < k2
        /\ passes[k1].doc = passes[k2].doc
        /\ passes[k1].promise # 0
        /\ passes[k1].promise = passes[k2].promise
        /\ documentSettings[passes[k1].doc] = passes[k1].promise
        /\ passes[k1].text # passes[k2].text
        /\ passes[k1].lookups # {}
        /\ passes[k1].sent = 1
        /\ passes[k2].sent = 1

\* Where pass k stands: the candidate it is at, and what it waits for.
PlaceOf(k) == <<passes[k].pc, passes[k].i, passes[k].name>>

\* C27: what was last published for a document is the diagnostics array of
\* a pass of that document, each diagnostic in it on a candidate that pass
\* scanned, with the document's uri in its related information; the
\* diagnostics array of a pass changes only in a step that pass takes, and
\* then diagnostics on its own candidates are added at its end; and what was
\* last published for a document changes only in a step in which a pass of
\* that document calls sendDiagnostics.
C27_PassPublishesItsOwnDiagnostics ==
    /\ [](\A d \in Docs :
             published[d].by # 0 =>
                LET p == passes[published[d].by]
                    ds == published[d].diagnostics
                IN /\ p.doc = d
                   /\ p.sent = 1
                   /\ ds = p.diagnostics
                   /\ \A n \in 1..Len(ds) :
                         /\ \E j \in 1..Len(p.cands) :
                               /\ ds[n].range = p.cands[j].range
                               /\ ds[n].message.subject = p.cands[j].content
                         /\ \A i \in 1..Len(ds[n].relatedInformation) :
                               ds[n].relatedInformation[i].uri = d)
    /\ [][\A k \in 1..Len(passes) :
             passes'[k].diagnostics # passes[k].diagnostics =>
                /\ PlaceOf(k)' # PlaceOf(k)
                /\ Len(passes'[k].diagnostics) > Len(passes[k].diagnostics)
                /\ SubSeq(passes'[k].diagnostics, 1, Len(passes[k].diagnostics))
                      = passes[k].diagnostics]_vars
    /\ [][\A d \in Docs :
             published'[d] # published[d] =>
                /\ published'[d].by \in 1..Len(passes')
                /\ passes'[published'[d].by].doc = d
                /\ passes'[published'[d].by].sent > SentBy(published'[d].by)]_vars

\* C27 witness: a pass of one document has collected a diagnostic and waits
\* for the naming backend, and meanwhile a pass of another document has
\* published diagnostics of its own.
C27_Witness ==
    \E k1 \in 1..Len(passes), k2 \in 1..Len(passes) :
        /\ k1 < k2
        /\ passes[k1].doc # passes[k2].doc
        /\ passes[k1].pc \in {"reverse", "forward"}
        /\ passes[k1].diagnostics # <<>>
        /\ published[passes[k2].doc].by = k2
        /\ published[passes[k2].doc].diagnostics # <<>>
        /\ published[passes[k2].doc].diagnostics # passes[k1].diagnostics
        /\ published[passes[k1].doc] = NoPublication

====
